---- MODULE Spec2Model ----
(***************************************************************************)
(* Model of bridges/rust/src/lib.rs: the foreign-function bridge that      *)
(* exposes derive_key (a pass-through to the external primitive            *)
(* hkdf_derive) and the exported no-op rust_callback.                      *)
(*                                                                         *)
(* Memory is modelled as buffers named by addresses, because derive_key    *)
(* hands raw pointers and lengths to the primitive.  The primitive is not  *)
(* part of the crate: it is the environment, and its behaviour is fixed    *)
(* for a run by the variable mode (see Modes).                             *)
(***************************************************************************)
EXTENDS Integers, Sequences, FiniteSets, TLC

\* ------------------------------------------------------------------ bounds
\* Total number of derive_key calls started in one behaviour.
MaxCalls == 2

\* ------------------------------------------------------- program constants
\* let mut key = [0u8; 64];
KEY_LEN == 64

\* ------------------------------------------------------------------ inputs
Threads == {"t1", "t2"}

\* Passwords and salts the callers draw from (empty ones included).
Passwords == {<< >>, <<112, 119>>}
Salts == {<< >>, <<115>>}

\* The null pointer: an address of no buffer.
NULL == <<"null", "null">>

\* No arguments (no invocation, no callback yet).
NoArgs == << >>

\* No call made, or no value returned, yet.
None == [none |-> TRUE]

\* Behaviours of the external primitive, fixed for a run:
\*   full    deterministic, writes all KEY_LEN bytes, stays in bounds
\*   partial deterministic, writes only the first 48 bytes
\*   fail    fails internally: writes nothing, returns (it has no result)
\*   nondet  writes all bytes, but not a function of (password, salt)
\*   oob     writes all bytes and overruns the output buffer
\*   hang    writes the first half and never returns
Modes == {"full", "partial", "fail", "nondet", "oob", "hang"}

Deterministic == {"full", "partial", "fail", "oob", "hang"}
InBounds == {"full", "partial", "fail", "nondet", "hang"}
WritesAll == {"full", "nondet", "oob"}

VARIABLES
  mode,     \* behaviour of the external primitive in this run
  mem,      \* address -> bytes of the buffer at that address
  pc,       \* per thread: position inside derive_key
  cur,      \* per thread: (password, salt) of the latest call, or None
  args,     \* per thread: the arguments of the latest hkdf_derive invocation
  invoked,  \* per thread: hkdf_derive invocations made by the latest call
  written,  \* per thread: what the primitive wrote for the latest call
  result,   \* per thread: the value the caller got from its last return
  ncalls,   \* derive_key calls started so far
  cbLast,   \* arguments of the last rust_callback call, or None
  cbDerefs, \* pointers rust_callback has dereferenced
  cbHkdf,   \* rust_callback has invoked hkdf_derive
  faulted   \* a null or out-of-range pointer has been dereferenced

vars == <<mode, mem, pc, cur, args, invoked, written, result, ncalls,
          cbLast, cbDerefs, cbHkdf, faulted>>

\* ----------------------------------------------------------------- memory
PwAddr(t) == <<t, "pw">>
SaltAddr(t) == <<t, "salt">>

KeyAddrStatic(t) == <<"t1", "key">>

\* The local `key` of a derive_key activation: one buffer per activation.
KeyAddr(t) == <<t, "key">>

Addrs == {<<t, k>> : t \in Threads, k \in {"pw", "salt", "key"}}

\* What a thread's stack slot holds before derive_key first runs there.
StackGarbage(t) == [i \in 1..KEY_LEN |-> IF t = "t1" THEN 170 ELSE 85]

Min(a, b) == IF a < b THEN a ELSE b

RECURSIVE SumBytes(_)
SumBytes(s) == IF s = << >> THEN 0 ELSE Head(s) + SumBytes(Tail(s))

\* The len bytes the primitive reads at ptr.
ReadBytes(m, ptr, len) == SubSeq(m[ptr], 1, Min(len, Len(m[ptr])))

\* ------------------------------------------------- the external primitive
\* What the primitive derives from the bytes it read; with them it fixes
\* every byte of its output.
HkdfSeed(pw, salt, nonce) ==
  31 * SumBytes(pw) + 17 * SumBytes(salt) + 7 * Len(pw) + 3 * Len(salt) + 101 * nonce + 1

\* Byte i of the primitive's output.
HkdfByte(seed, i) == (seed + i) % 256

\* The positions the primitive writes in this mode.
HkdfMask(md) ==
  IF md = "fail" THEN {}
  ELSE IF md = "partial" THEN 1..48
  ELSE 1..KEY_LEN

Nonces(md) == IF md = "nondet" THEN {0, 1} ELSE {0}

\* The buffer after the primitive wrote the given positions of it.
WriteBytes(buf, positions, seed) ==
  [i \in 1..Len(buf) |-> IF i \in positions THEN HkdfByte(seed, i) ELSE buf[i]]

\* Nothing written yet for a call.
NothingWritten == [seed |-> -1, pos |-> {}]

\* Byte i as the primitive wrote it for thread t's call (-1: not written).
WrittenByte(w, i) == IF i \in w.pos THEN HkdfByte(w.seed, i) ELSE -1

\* The memory that follows the output buffer, hit by an overrun.
Adjacent(ptr) == <<ptr[1], "salt">>

Clobber(buf) == [i \in 1..Len(buf) |-> 255]

\* ------------------------------------------------------------- derive_key
InitKeyShort(old) == [i \in 1..32 |-> 0]

InitKeyUninit(old) == old

\* let mut key = [0u8; 64];
InitKey(old) == [i \in 1..KEY_LEN |-> 0]

HkdfArgsSwapped(t, password, salt) ==
  <<SaltAddr(t), Len(salt), PwAddr(t), Len(password), KeyAddr(t)>>

HkdfArgsOutIsPassword(t, password, salt) ==
  <<PwAddr(t), Len(password), SaltAddr(t), Len(salt), PwAddr(t)>>

\* hkdf_derive(password.as_ptr(), password.len(), salt.as_ptr(), salt.len(),
\*             key.as_mut_ptr())
HkdfArgs(t, password, salt) ==
  <<PwAddr(t), Len(password), SaltAddr(t), Len(salt), KeyAddr(t)>>

CallGuardValidates(password, salt) == password # << >> /\ salt # << >>

\* The unsafe block is entered for every input: no validation, no early return.
CallGuard(password, salt) == TRUE

AfterHkdfRetry(key) == IF \A i \in 1..Len(key) : key[i] = 0 THEN "hkdf_lo" ELSE "L16"

\* After the primitive returns, control falls through to the final `key`.
AfterHkdf(key) == "L16"

ReturnReadyEarly(p) == p \in {"hkdf_hi", "L16"}

\* `key` is returned once the (synchronous) foreign call is over.
ReturnReady(p) == p = "L16"

\* The value derive_key returns: the contents of its local `key`.
\* (The signature spells the return type `[64; u8]`; the value returned is the
\* `[0u8; 64]` local, i.e. a [u8; 64].)
ReturnValue(m, t) == m[KeyAddr(t)]

\* ---------------------------------------------------------- rust_callback
rust_callback_touching(m, data, len) ==
  [mem |-> IF data \in DOMAIN m THEN [m EXCEPT ![data] = Clobber(m[data])] ELSE m,
   derefs |-> {data},
   hkdf |-> 0]

\* let _ = (data, len);  -- the effect of the body: memory after it, the
\* pointers it dereferences, the hkdf_derive invocations it makes.
rust_callback(m, data, len) == [mem |-> m, derefs |-> {}, hkdf |-> 0]

\* The (data, len) pairs foreign code passes: a null pointer with no bytes,
\* and a caller's buffer.
CbArgs == {<<NULL, 0>>, <<PwAddr("t1"), 2>>}

\* ------------------------------------------------------------------- Init
Init ==
  /\ mode \in Modes
  /\ mem = [a \in Addrs |-> IF a[2] = "key" THEN StackGarbage(a[1]) ELSE << >>]
  /\ pc = [t \in Threads |-> "idle"]
  /\ cur = [t \in Threads |-> None]
  /\ args = [t \in Threads |-> NoArgs]
  /\ invoked = [t \in Threads |-> 0]
  /\ written = [t \in Threads |-> NothingWritten]
  /\ result = [t \in Threads |-> None]
  /\ ncalls = 0
  /\ cbLast = NoArgs
  /\ cbDerefs = {}
  /\ cbHkdf = FALSE
  /\ faulted = FALSE

\* ---------------------------------------------------------------- actions
\* A caller on thread t calls derive_key(password, salt): lines 11-14 up to
\* the transfer of control to the primitive.
DeriveKeyCall(t, password, salt) ==
  /\ pc[t] = "idle"
  /\ ncalls < MaxCalls
  /\ ncalls' = ncalls + 1
  /\ cur' = [cur EXCEPT ![t] = [pw |-> password, salt |-> salt]]
  /\ mem' = [mem EXCEPT ![PwAddr(t)] = password,
                        ![SaltAddr(t)] = salt,
                        ![KeyAddr(t)] = InitKey(mem[KeyAddr(t)])]
  /\ written' = [written EXCEPT ![t] = NothingWritten]
  /\ IF CallGuard(password, salt)
       THEN /\ args' = [args EXCEPT ![t] = HkdfArgs(t, password, salt)]
            /\ invoked' = [invoked EXCEPT ![t] = 1]
            /\ pc' = [pc EXCEPT ![t] = "hkdf_lo"]
       ELSE /\ args' = [args EXCEPT ![t] = NoArgs]
            /\ invoked' = [invoked EXCEPT ![t] = 0]
            /\ pc' = [pc EXCEPT ![t] = "L16"]
  /\ UNCHANGED <<mode, result, cbLast, cbDerefs, cbHkdf, faulted>>

\* The primitive, running for thread t's call, writes the first half of its
\* output through the output pointer it was given.
HkdfWriteLow(t) ==
  /\ pc[t] = "hkdf_lo"
  /\ \E nonce \in Nonces(mode) :
     \E seed \in {HkdfSeed(ReadBytes(mem, args[t][1], args[t][2]),
                           ReadBytes(mem, args[t][3], args[t][4]), nonce)} :
     \E pos \in {HkdfMask(mode) \cap (1..32)} :
       /\ mem' = [mem EXCEPT ![args[t][5]] = WriteBytes(mem[args[t][5]], pos, seed)]
       /\ written' = [written EXCEPT ![t] = [seed |-> seed, pos |-> pos]]
  /\ pc' = [pc EXCEPT ![t] = "hkdf_hi"]
  /\ UNCHANGED <<mode, cur, args, invoked, result, ncalls, cbLast, cbDerefs, cbHkdf, faulted>>

\* The primitive writes the second half and returns to derive_key.
HkdfWriteHighReturn(t) ==
  /\ pc[t] = "hkdf_hi"
  /\ mode # "hang"
  /\ \E pos \in {HkdfMask(mode) \cap (33..KEY_LEN)} :
     \E out \in {args[t][5]} :
     \E m1 \in {[mem EXCEPT ![out] = WriteBytes(mem[out], pos, written[t].seed)]} :
     \E nextpc \in {AfterHkdf(m1[out])} :
       /\ mem' = IF mode = "oob"
                   THEN [m1 EXCEPT ![Adjacent(out)] = Clobber(m1[Adjacent(out)])]
                   ELSE m1
       /\ written' = [written EXCEPT ![t].pos = @ \cup pos]
       /\ pc' = [pc EXCEPT ![t] = nextpc]
       /\ invoked' = [invoked EXCEPT ![t] =
                        IF nextpc = "hkdf_lo" THEN Min(invoked[t] + 1, 2) ELSE invoked[t]]
  /\ UNCHANGED <<mode, cur, args, result, ncalls, cbLast, cbDerefs, cbHkdf, faulted>>

\* derive_key returns `key` to its caller (line 16).
DeriveKeyReturn(t) ==
  /\ ReturnReady(pc[t])
  /\ result' = [result EXCEPT ![t] =
                  [pw |-> cur[t].pw, salt |-> cur[t].salt, key |-> ReturnValue(mem, t)]]
  /\ pc' = [pc EXCEPT ![t] = "idle"]
  /\ UNCHANGED <<mode, mem, cur, args, invoked, written, ncalls, cbLast, cbDerefs, cbHkdf, faulted>>

\* Foreign code calls the exported rust_callback(data, len).
RustCallback(data, len) ==
  LET r == rust_callback(mem, data, len)
  IN /\ cbLast' = <<data, len>>
     /\ mem' = r.mem
     /\ cbDerefs' = cbDerefs \cup r.derefs
     /\ cbHkdf' = (cbHkdf \/ r.hkdf > 0)
     /\ faulted' = (faulted \/ \E p \in r.derefs : p \notin DOMAIN mem \/ len > Len(mem[p]))
     /\ UNCHANGED <<mode, pc, cur, args, invoked, written, result, ncalls>>

Next ==
  \/ \E t \in Threads, password \in Passwords, salt \in Salts :
       DeriveKeyCall(t, password, salt)
  \/ \E t \in Threads : HkdfWriteLow(t)
  \/ \E t \in Threads : HkdfWriteHighReturn(t)
  \/ \E t \in Threads : DeriveKeyReturn(t)
  \/ \E a \in CbArgs : RustCallback(a[1], a[2])

Spec == Init /\ [][Next]_vars

\* The steps of thread t inside a derive_key call.
ThreadStep(t) == HkdfWriteLow(t) \/ HkdfWriteHighReturn(t) \/ DeriveKeyReturn(t)

\* A started foreign call runs on, and so does the thread that made it.
Fairness == \A t \in Threads : WF_vars(ThreadStep(t))

LiveSpec == Spec /\ Fairness

TypeOK ==
  /\ mode \in Modes
  /\ \A t \in Threads : pc[t] \in {"idle", "hkdf_lo", "hkdf_hi", "L16"}
  /\ ncalls \in 0..MaxCalls
  /\ faulted \in BOOLEAN

\* ------------------------------------------------------------- properties
Zeros64 == [i \in 1..64 |-> 0]

\* The key a deterministic primitive of mode md leaves in a zeroed 64-byte
\* buffer for the given password and salt.
ExpectedKey(md, password, salt) ==
  [i \in 1..64 |->
     IF i \in HkdfMask(md) THEN HkdfByte(HkdfSeed(password, salt, 0), i) ELSE 0]

\* C1: every completed derive_key call returns exactly 64 bytes, whatever the
\* lengths of password and salt (empty ones included).
C1_KeyIs64Bytes ==
  \A t \in Threads : result[t] # None => Len(result[t].key) = 64

C1_Witness ==
  \E t, u \in Threads :
    /\ result[t] # None /\ result[t].pw = << >> /\ result[t].salt = << >>
    /\ result[u] # None /\ result[u].pw # << >> /\ result[u].salt # << >>

C3_Step ==
  cbLast' # cbLast =>
    /\ mem' = mem /\ pc' = pc /\ cur' = cur /\ args' = args
    /\ invoked' = invoked /\ written' = written /\ result' = result
    /\ cbDerefs' = {} /\ ~cbHkdf' /\ ~faulted'

\* C3: a rust_callback call, null pointer with length 0 included, completes
\* without fault, dereferences nothing, invokes no hkdf_derive and changes
\* no buffer and no other state of its callers.
C3_CallbackNoEffect == [][C3_Step]_vars

C3_Witness ==
  /\ cbLast = <<NULL, 0>>
  /\ ~faulted
  /\ \E t \in Threads : pc[t] = "hkdf_hi" /\ mem[<<t, "pw">>] # << >>

C4_Step ==
  mode \in InBounds =>
    \A t \in Threads :
      pc'[t] # pc[t] =>
        /\ \A a \in Addrs \ {<<t, "key">>} :
             (a[1] # t \/ pc[t] # "idle") => mem'[a] = mem[a]
        /\ mem'[<<t, "pw">>] = cur'[t].pw
        /\ mem'[<<t, "salt">>] = cur'[t].salt
        /\ \A u \in Threads \ {t} : result'[u] = result[u] /\ cur'[u] = cur[u]

\* C4: with a primitive that stays in bounds, a step of thread t's derive_key
\* changes no buffer but t's own key buffer (after the caller has set up the
\* inputs, the password and salt buffers keep their bytes) and no state of
\* another caller.
C4_Frame == [][C4_Step]_vars

C4_Witness ==
  \E t \in Threads :
    /\ mode \in InBounds
    /\ pc[t] = "idle" /\ result[t] # None
    /\ result[t].pw = <<112, 119>> /\ mem[<<t, "pw">>] = <<112, 119>>
    /\ result[t].salt = <<115>> /\ mem[<<t, "salt">>] = <<115>>

\* C5: derive_key forwards every call to hkdf_derive (no validation, no early
\* return) and a failure of the primitive is not surfaced: what a call
\* returns is always a 64-byte value, never an error value.
C5_NoErrorOutcome ==
  \A t \in Threads :
    /\ cur[t] # None => invoked[t] >= 1 /\ args[t] # NoArgs
    /\ result[t] # None => result[t].key \in [1..64 -> 0..255]

C5_Witness ==
  \E t \in Threads :
    /\ mode = "fail"
    /\ result[t] # None /\ result[t].pw = << >>
    /\ pc[t] = "idle"

C6_Step ==
  \A t \in Threads :
    result'[t] # result[t] =>
      /\ pc[t] = "L16"
      /\ written[t].pos = HkdfMask(mode)
      /\ mode \in WritesAll =>
           \A i \in 1..64 : result'[t].key[i] = WrittenByte(written[t], i)

\* C6: the caller gets a key only after the primitive has finished and
\* returned; if the primitive writes all 64 bytes, every byte of the key is
\* the byte the primitive wrote at that position.
C6_NoPartialOutput == [][C6_Step]_vars

C6_Witness ==
  \E t, u \in Threads :
    /\ mode = "nondet"
    /\ result[t] # None /\ pc[t] = "idle" /\ written[t].pos = 1..64
    /\ result[t].key[64] = WrittenByte(written[t], 64)
    /\ pc[u] = "hkdf_hi" /\ mem[<<u, "key">>][1] # 0 /\ mem[<<u, "key">>][64] = 0
    /\ result[u] = None

\* C7: a derive_key call invokes hkdf_derive exactly once, with the password
\* buffer and its length, the salt buffer and its length, and a buffer of 64
\* bytes, in this order.
C7_ForwardedArguments ==
  \A t \in Threads :
    cur[t] # None =>
      /\ invoked[t] = 1
      /\ args[t] = <<(<<t, "pw">>), Len(cur[t].pw), (<<t, "salt">>), Len(cur[t].salt),
                     (<<t, "key">>)>>
      /\ Len(mem[args[t][5]]) = 64
      /\ pc[t] # "idle" => mem[args[t][1]] = cur[t].pw

C7_Witness ==
  \E t \in Threads :
    /\ pc[t] = "hkdf_lo"
    /\ cur[t].pw = <<112, 119>> /\ cur[t].salt = <<115>>
    /\ args[t][2] = 2 /\ args[t][4] = 1

\* C8: with calls interleaved on different threads, each call returns the key
\* of its own (password, salt), and a returned key stays what it was.
C8_OwnBuffer ==
  mode \in Deterministic =>
    \A t \in Threads :
      /\ result[t] # None =>
           result[t].key = ExpectedKey(mode, result[t].pw, result[t].salt)
      /\ pc[t] = "L16" =>
           ReturnValue(mem, t) = ExpectedKey(mode, cur[t].pw, cur[t].salt)

C8_Witness ==
  /\ mode = "full"
  /\ pc["t1"] = "L16" /\ pc["t2"] = "hkdf_hi"
  /\ cur["t1"].pw # cur["t2"].pw /\ cur["t1"].salt # cur["t2"].salt
  /\ mem[<<"t1", "key">>][1] # mem[<<"t2", "key">>][1]
  /\ mem[<<"t1", "key">>][64] # 0 /\ mem[<<"t2", "key">>][64] = 0

\* C9: the key buffer holds 64 zero bytes when hkdf_derive is invoked, so
\* every position the primitive did not write is 0; a primitive that writes
\* nothing leaves a key of 64 zero bytes.
C9_ZeroInitialised ==
  \A t \in Threads :
    /\ pc[t] = "hkdf_lo" => mem[<<t, "key">>] = Zeros64
    /\ pc[t] # "idle" =>
         \A i \in (1..64) \ written[t].pos : mem[<<t, "key">>][i] = 0
    /\ (mode = "fail" /\ result[t] # None) => result[t].key = Zeros64
    /\ (mode = "partial" /\ result[t] # None) =>
         \A i \in 49..64 : result[t].key[i] = 0

C9_Witness ==
  \E t \in Threads :
    /\ mode = "fail"
    /\ result[t] # None /\ result[t].key = Zeros64
    /\ pc[t] = "idle" /\ ncalls >= 2

C10_Step ==
  \A t \in Threads :
    (pc[t] # "idle" /\ pc'[t] = "idle") =>
      (invoked[t] = 1 /\ written[t].pos = HkdfMask(mode))

\* C10: if the primitive returns, a started derive_key call returns, and it
\* returns only after its single invocation of the primitive has completed.
C10_Terminates ==
  /\ \A t \in Threads : (pc[t] # "idle") ~> (mode = "hang" \/ pc[t] = "idle")
  /\ [][C10_Step]_vars

C10_Witness ==
  \E t \in Threads :
    /\ mode # "hang"
    /\ pc[t] = "idle" /\ result[t] # None /\ invoked[t] = 1
    /\ ncalls = MaxCalls

====
